---- MODULE Spec2Model ----
(***************************************************************************)
(* A model of websole (src/websole/app.py): one configured command run     *)
(* under a pty, its output streamed to the viewers of a socket namespace,  *)
(* with login, heartbeat, run, stop, input and resize entry points.        *)
(*                                                                         *)
(* Handlers run as concurrent tasks (gevent, monkey-patched at the top of  *)
(* app.py).  A handler is one action, except where the code waits in the   *)
(* middle: start_proc waits inside Popen (the child exists, nothing is     *)
(* recorded yet), and the reader waits in select, at the lock and in       *)
(* os.read.  kill_proc, whose loop polls without waiting, is one action;   *)
(* what the process does meanwhile is the choice of the poll at which it   *)
(* is found exited.                                                        *)
(*                                                                         *)
(* A process and the pty opened for it share one number: start_proc opens  *)
(* a new pty for every process and never closes one.  What a step does to  *)
(* the outside (an emit, an HTTP answer, a write or a geometry applied to  *)
(* a pty) is held in the variable out until the next step.                 *)
(***************************************************************************)
EXTENDS Integers, Sequences, FiniteSets, TLC

\* ---------------------------------------------------------------- bounds
MaxProcs   == 2      \* processes spawned in one behaviour
MaxOut     == 1      \* output chunks one process writes to its pty
NumViewers == 2      \* viewers connected to the /pty namespace
NumSizes   == 1      \* distinct terminal geometries a viewer may send
MaxTicks   == 2      \* clock advances in one behaviour
MaxFails   == 6      \* entries of the failed-login log

\* ----------------------------------------------------- program constants
PollTries  == 10     \* kill_proc: for _ in range(10)
FailLimit  == 5      \* login_submit: faillog[-5:] ... == 5
Window     == 3600   \* login_submit: time.time() - 3600

None    == 0
Pids    == 1..MaxProcs
Viewers == 1..NumViewers
Sizes   == 1..NumSizes
Secrets == {"none", "empty", "set"}        \* app.config["webpass"]: None, "", a secret
Inputs  == {"absent", "wrong", "correct"}  \* the candidate a request carries
Steps   == {1, Window - 1}                 \* how far the clock moves at once

VARIABLES
    webpass,       \* app.config["webpass"]
    allow_restart, \* app.config["allow_restart"]
    loggedIn,      \* viewers whose flask-login session is authenticated
    faillog,       \* app.config["faillog"]
    now,           \* time.time()
    ticks,         \* clock advances so far
    proc,          \* app.config["proc"]: a pid, or None
    fd,            \* app.config["fd"]: a pty master descriptor, or None
    hist,          \* app.config["hist"]
    lock,          \* app.config["lock"]: free, or the kind of task holding it
    spawned,       \* processes spawned so far (the last pid given out)
    status,        \* per process: unborn, alive, dead (exited), killed (SIGKILL)
    ptybuf,        \* per pty: output written by the process and not yet read
    outCount,      \* per process: chunks written so far
    runPending,    \* the run handler waiting inside start_proc
    hbPending,     \* heartbeat handlers waiting inside start_proc (by pid)
    watcher,       \* per process: its disconnect_on_proc_exit task
    readerPc,      \* per start: its read_and_forward_pty_output task
    selFd,         \* per reader: the descriptor its select or os.read waits on
    killPc,        \* per process: its kill_proc task
    out,           \* what the last step did to the outside: an emit, an HTTP answer,
                   \* a write to a pty, a geometry applied to a pty
    sessionOut     \* output events published since the last start completed

gateVars == <<webpass, allow_restart, loggedIn, faillog, now, ticks>>
sessVars == <<proc, fd, hist, lock>>
procVars == <<spawned, status, ptybuf, outCount>>
taskVars == <<runPending, hbPending, watcher, readerPc, selFd, killPc>>
vars == <<gateVars, sessVars, procVars, taskVars, out, sessionOut>>

NoRun == [pid |-> None, size |-> None]
NoOut == [kind |-> "none", status |-> "none", output |-> <<>>, to |-> {}, by |-> None,
          pid |-> None, input |-> "absent", wrote |-> None, sized |-> None, size |-> None]

\* The text a process writes with its k-th chunk, and its exit notice.
Chunk(p, k) == <<p, k>>
Notice(p)   == <<p, 0>>

\* The module's globals as app.py sets them, under a configuration.
Configure(secrets, restarts) ==
    /\ webpass \in secrets
    /\ allow_restart \in restarts
    /\ loggedIn = {}
    /\ faillog = <<>>
    /\ now = 0
    /\ ticks = 0
    /\ proc = None
    /\ fd = None
    /\ hist = <<>>
    /\ lock = "free"
    /\ spawned = 0
    /\ status = [p \in Pids |-> "unborn"]
    /\ ptybuf = [p \in Pids |-> <<>>]
    /\ outCount = [p \in Pids |-> 0]
    /\ runPending = NoRun
    /\ hbPending = {}
    /\ watcher = [p \in Pids |-> "none"]
    /\ readerPc = [p \in Pids |-> "none"]
    /\ selFd = [p \in Pids |-> None]
    /\ killPc = [p \in Pids |-> "none"]
    /\ out = NoOut
    /\ sessionOut = <<>>

\* The session is studied with a secret configured and restarts allowed, the
\* configuration in which every handler can act and every viewer has to log in.
Init == Configure({"set"}, {TRUE})

\* The access gate is studied under every configuration.
InitGate == Configure(Secrets, BOOLEAN)

\* ------------------------------------------------------------ access gate
\* The gate left open: every viewer passes.
is_authenticated_Always(v) == TRUE

\* is_authenticated(): (not webpass) or current_user.is_authenticated
is_authenticated(v) == webpass \in {"none", "empty"} \/ v \in loggedIn

\* faillog[:5], the first five entries instead of the last five.
LastFails_First ==
    SubSeq(faillog, 1, IF Len(faillog) > FailLimit THEN FailLimit ELSE Len(faillog))

\* faillog[-5:]
LastFails ==
    SubSeq(faillog, IF Len(faillog) > FailLimit THEN Len(faillog) - FailLimit + 1 ELSE 1,
           Len(faillog))

\* The lockout test without its window: five logged failures, however old.
TooManyTrials_NoWindow == Len(LastFails) = FailLimit

\* login_submit: sum(t > time.time() - 3600 for t in faillog[-5:]) == 5
TooManyTrials ==
    Cardinality({i \in 1..Len(LastFails) : LastFails[i] > now - Window}) = FailLimit

\* An HTTP answer.
Answer(kind, st, pid, inp) ==
    out' = [NoOut EXCEPT !.kind = kind, !.status = st, !.pid = pid, !.input = inp]

\* ------------------------------------------------------------- supervisor
\* Popen.poll() is None
Alive(p) == status[p] = "alive"

\* The test of run without the poll: a recorded process counts as running.
IsRunning_NoPoll == fd # None /\ proc # None

\* The test of run with the poll inverted.
IsRunning_Inverted == fd # None /\ proc # None /\ ~Alive(proc)

\* run: app.config["fd"] and app.config["proc"] and app.config["proc"].poll() is None
IsRunning == fd # None /\ proc # None /\ Alive(proc)

\* heartbeat: app.config["proc"] is None
NoProc == proc = None

\* socketio.emit("pty-output", ..., namespace="/pty") names no recipient: every
\* client of the namespace receives the event.
Recipients(v) == Viewers

Emit(kind, output, v) ==
    [NoOut EXCEPT !.kind = kind, !.output = output, !.to = Recipients(v), !.by = v]

\* set_size(fd, rows, cols): the geometry is applied to the pty; fcntl.ioctl raises
\* for a descriptor that is None.
set_size(o, f, sz) ==
    IF f = None THEN [o EXCEPT !.status = "error"] ELSE [o EXCEPT !.sized = f, !.size = sz]

\* os.write(fd, input): the input goes to the pty; os.write raises for a descriptor
\* that is None.
os_write(o, f) ==
    IF f = None THEN [o EXCEPT !.status = "error"] ELSE [o EXCEPT !.wrote = f]

\* start_proc up to the point where Popen waits: the pty is open and the child runs.
Popen(p) ==
    /\ spawned < MaxProcs
    /\ p = spawned + 1
    /\ spawned' = p
    /\ status' = [status EXCEPT ![p] = "alive"]

\* start_proc after Popen returned: the exit watcher, the two assignments, the reader.
Record(p) ==
    /\ watcher' = [watcher EXCEPT ![p] = "waiting"]
    /\ fd' = p
    /\ proc' = p
    /\ readerPc' = [readerPc EXCEPT ![p] = "top"]
    /\ sessionOut' = <<>>

\* The handler of event ev returns without acting, the viewer being
\* unauthenticated or there being nothing to act on: nothing changes and nothing
\* is sent.
Ignored(ev, why) ==
    /\ out' = [NoOut EXCEPT !.kind = ev, !.status = why]
    /\ UNCHANGED <<gateVars, sessVars, procVars, taskVars, sessionOut>>

\* run, from the event to the replay or to the wait inside start_proc.
Run(v, sz) ==
    IF ~is_authenticated(v)
    THEN Ignored("event", "unauthenticated")
    ELSE /\ lock = "free"
         /\ IF IsRunning
            THEN /\ out' = set_size(Emit("replay", hist, v), fd, sz)
                 /\ UNCHANGED <<gateVars, sessVars, procVars, taskVars, sessionOut>>
            ELSE /\ Popen(spawned + 1)
                 /\ lock' = "run"
                 /\ runPending' = [pid |-> spawned + 1, size |-> sz]
                 /\ out' = NoOut
                 /\ UNCHANGED <<gateVars, proc, fd, hist, sessionOut>>
                 /\ UNCHANGED <<ptybuf, outCount>>
                 /\ UNCHANGED <<hbPending, watcher, readerPc, selFd, killPc>>

\* A failed start that leaves the lock held.
SpawnFails_LockHeld(ev) ==
    /\ out' = [NoOut EXCEPT !.kind = ev, !.status = "error"]
    /\ lock' = "run"
    /\ UNCHANGED <<gateVars, proc, fd, hist, procVars, taskVars, sessionOut>>

\* start_proc when pty.openpty() or Popen raises: the exception leaves start_proc
\* before its first assignment and before it starts a task, and reaches the handler
\* of event ev, whose with-statement (if it holds the lock) releases it.
SpawnFails(ev) ==
    /\ out' = [NoOut EXCEPT !.kind = ev, !.status = "error"]
    /\ UNCHANGED <<gateVars, sessVars, procVars, taskVars, sessionOut>>

\* run, when start_proc raises.
RunFail(v, sz) ==
    /\ is_authenticated(v)
    /\ lock = "free"
    /\ ~IsRunning
    /\ SpawnFails("run")

\* run, from Popen's return to the release of the lock.
RunFinish ==
    /\ runPending.pid # None
    /\ Record(runPending.pid)
    /\ out' = set_size(NoOut, runPending.pid, runPending.size)
    /\ lock' = "free"
    /\ runPending' = NoRun
    /\ UNCHANGED <<gateVars, hist, procVars>>
    /\ UNCHANGED <<hbPending, selFd, killPc>>

\* heartbeat, from the request to its answer or to the wait inside start_proc.
Heartbeat(inp) ==
    IF inp = "absent" \/ webpass = "none"
    THEN /\ Answer("heartbeat", "forbidden", None, inp)
         /\ UNCHANGED <<gateVars, sessVars, procVars, taskVars, sessionOut>>
    ELSE IF webpass = "empty" \/ inp = "correct"
    THEN IF NoProc
         THEN /\ Popen(spawned + 1)
              /\ hbPending' = hbPending \cup {spawned + 1}
              /\ out' = NoOut
              /\ UNCHANGED <<gateVars, sessVars, sessionOut>>
              /\ UNCHANGED <<ptybuf, outCount>>
              /\ UNCHANGED <<runPending, watcher, readerPc, selFd, killPc>>
         ELSE /\ Answer("heartbeat", "running", proc, inp)
              /\ UNCHANGED <<gateVars, sessVars, procVars, taskVars, sessionOut>>
    ELSE /\ Answer("heartbeat", "forbidden", None, inp)
         /\ UNCHANGED <<gateVars, sessVars, procVars, taskVars, sessionOut>>

\* heartbeat, when start_proc raises: the request is answered with an error.
HeartbeatFail(inp) ==
    /\ inp # "absent"
    /\ webpass # "none"
    /\ webpass = "empty" \/ inp = "correct"
    /\ NoProc
    /\ SpawnFails("heartbeat")

\* heartbeat, from Popen's return to the answer; only an accepted candidate gets
\* here, which the answer records as "correct".
HeartbeatFinish(p) ==
    /\ p \in hbPending
    /\ Record(p)
    /\ hbPending' = hbPending \ {p}
    /\ Answer("heartbeat", "restarted", p, "correct")
    /\ UNCHANGED <<gateVars, hist, lock, procVars>>
    /\ UNCHANGED <<runPending, selFd, killPc>>

\* stop: clears the session under the lock and hands the process to kill_proc.
Stop(v) ==
    IF ~is_authenticated(v)
    THEN Ignored("event", "unauthenticated")
    ELSE IF ~allow_restart
    THEN Ignored("stop", "norestart")
    ELSE /\ lock = "free"
         /\ IF proc # None
            THEN /\ fd' = None
                 /\ proc' = None
                 /\ hist' = <<>>
                 /\ killPc' = [killPc EXCEPT ![proc] = "ready"]
                 /\ out' = NoOut
                 /\ UNCHANGED <<gateVars, lock, procVars, sessionOut>>
                 /\ UNCHANGED <<runPending, hbPending, watcher, readerPc, selFd>>
            ELSE Ignored("stop", "nosession")

\* The loop of kill_proc without its else branch: no forced kill.
RECURSIVE KillLoop_NoKill(_, _)
KillLoop_NoKill(i, exitAt) ==
    IF i > PollTries THEN "alive"
    ELSE IF i >= exitAt THEN "dead"
    ELSE KillLoop_NoKill(i + 1, exitAt)

\* kill_proc's loop from its i-th poll on, for a process that poll() reports as
\* exited from poll number exitAt on: it breaks out there, or falls through the
\* else branch of the loop into proc.kill().
RECURSIVE KillLoop(_, _)
KillLoop(i, exitAt) ==
    IF i > PollTries THEN "killed"
    ELSE IF i >= exitAt THEN "dead"
    ELSE KillLoop(i + 1, exitAt)

\* kill_proc: send_signal(SIGINT), the polls, the forced kill.
KillProc(p) ==
    /\ killPc[p] = "ready"
    /\ killPc' = [killPc EXCEPT ![p] = "done"]
    /\ IF Alive(p)
       THEN \E exitAt \in 1..(PollTries + 1) :
                status' = [status EXCEPT ![p] = KillLoop(1, exitAt)]
       ELSE UNCHANGED status
    /\ out' = NoOut
    /\ UNCHANGED <<gateVars, sessVars, sessionOut>>
    /\ UNCHANGED <<spawned, ptybuf, outCount>>
    /\ UNCHANGED <<runPending, hbPending, watcher, readerPc, selFd>>

\* The exit watcher without its test: every exit is announced.
IsCurrent_Always(p) == TRUE

\* disconnect_on_proc_exit: proc == app.config["proc"]
IsCurrent(p) == p = proc

\* disconnect_on_proc_exit: proc.wait() has returned.
ExitWatcher(p) ==
    /\ watcher[p] = "waiting"
    /\ ~Alive(p)
    /\ watcher' = [watcher EXCEPT ![p] = "done"]
    /\ IF IsCurrent(p)
       THEN /\ hist' = hist \o <<Notice(p)>>
            /\ sessionOut' = sessionOut \o <<Notice(p)>>
            /\ out' = Emit("notice", <<Notice(p)>>, None)
       ELSE /\ out' = NoOut
            /\ UNCHANGED <<hist, sessionOut>>
    /\ UNCHANGED <<gateVars, proc, fd, lock, procVars>>
    /\ UNCHANGED <<runPending, hbPending, readerPc, selFd, killPc>>

\* ------------------------------------------------------------------ bridge
\* read_and_forward_pty_output, the test at the top of the loop: into select on the
\* descriptor recorded at that moment, or out of the loop.
AtTop(r) ==
    IF fd # None
    THEN /\ readerPc' = [readerPc EXCEPT ![r] = "select"]
         /\ selFd' = [selFd EXCEPT ![r] = fd]
    ELSE /\ readerPc' = [readerPc EXCEPT ![r] = "done"]
         /\ UNCHANGED selFd

\* os.read(fd, max_read_bytes) returns the first k chunks the pty holds; the reader
\* appends them to the history, publishes them and goes back to the top of its loop.
\* The event is marked with the reader that published it.
Forward(r, f, k) ==
    /\ hist' = hist \o SubSeq(ptybuf[f], 1, k)
    /\ sessionOut' = sessionOut \o SubSeq(ptybuf[f], 1, k)
    /\ out' = [Emit("chunk", SubSeq(ptybuf[f], 1, k), None) EXCEPT !.pid = r]
    /\ ptybuf' = [ptybuf EXCEPT ![f] = SubSeq(ptybuf[f], k + 1, Len(ptybuf[f]))]
    /\ AtTop(r)

\* The reader inside the lock: it tests the descriptor recorded now, which need not
\* be the one select waited on, and reads from it; with nothing to read there,
\* os.read blocks inside the lock.
Locked(r) ==
    IF fd = None
    THEN /\ readerPc' = [readerPc EXCEPT ![r] = "done"]
         /\ out' = NoOut
         /\ UNCHANGED <<hist, lock, ptybuf, selFd, sessionOut>>
    ELSE IF ptybuf[fd] # <<>>
    THEN /\ \E k \in 1..Len(ptybuf[fd]) : Forward(r, fd, k)
         /\ lock' = "free"
    ELSE /\ readerPc' = [readerPc EXCEPT ![r] = "blocked"]
         /\ selFd' = [selFd EXCEPT ![r] = fd]
         /\ lock' = "reader"
         /\ out' = NoOut
         /\ UNCHANGED <<hist, ptybuf, sessionOut>>

\* The reader task starts.
ReaderStart(r) ==
    /\ readerPc[r] = "top"
    /\ AtTop(r)
    /\ out' = NoOut
    /\ UNCHANGED <<gateVars, sessVars, procVars, sessionOut>>
    /\ UNCHANGED <<runPending, hbPending, watcher, killPc>>

\* select.select returns, the descriptor it waited on being readable, and the
\* reader takes the lock, or waits for it.
ReaderWake(r) ==
    /\ readerPc[r] = "select"
    /\ ptybuf[selFd[r]] # <<>>
    /\ IF lock = "free"
       THEN Locked(r)
       ELSE /\ readerPc' = [readerPc EXCEPT ![r] = "wantlock"]
            /\ out' = NoOut
            /\ UNCHANGED <<hist, lock, ptybuf, selFd, sessionOut>>
    /\ UNCHANGED <<gateVars, proc, fd>>
    /\ UNCHANGED <<spawned, status, outCount>>
    /\ UNCHANGED <<runPending, hbPending, watcher, killPc>>

\* The reader that waited for the lock gets it.
ReaderLocked(r) ==
    /\ readerPc[r] = "wantlock"
    /\ lock = "free"
    /\ Locked(r)
    /\ UNCHANGED <<gateVars, proc, fd>>
    /\ UNCHANGED <<spawned, status, outCount>>
    /\ UNCHANGED <<runPending, hbPending, watcher, killPc>>

\* The blocked os.read returns once its pty holds output.
ReaderUnblock(r) ==
    /\ readerPc[r] = "blocked"
    /\ \E k \in 1..Len(ptybuf[selFd[r]]) : Forward(r, selFd[r], k)
    /\ lock' = "free"
    /\ UNCHANGED <<gateVars, proc, fd>>
    /\ UNCHANGED <<spawned, status, outCount>>
    /\ UNCHANGED <<runPending, hbPending, watcher, killPc>>

\* pty_input with its test removed: the write is attempted on whatever is recorded.
InputHasFd_Always == TRUE

\* pty_input: if app.config["fd"]
InputHasFd == fd # None

\* pty_input: os.write to the recorded descriptor, under the lock.
PtyInput(v) ==
    IF ~is_authenticated(v)
    THEN Ignored("event", "unauthenticated")
    ELSE /\ lock = "free"
         /\ IF InputHasFd
            THEN /\ out' = os_write(NoOut, fd)
                 /\ UNCHANGED <<gateVars, sessVars, procVars, taskVars, sessionOut>>
            ELSE Ignored("input", "nosession")

\* resize with its test removed: the geometry is applied to whatever is recorded.
ResizeHasFd_Always == TRUE

\* resize: if app.config["fd"]
ResizeHasFd == fd # None

\* resize: set_size on the recorded descriptor, under the lock.
Resize(v, sz) ==
    IF ~is_authenticated(v)
    THEN Ignored("event", "unauthenticated")
    ELSE /\ lock = "free"
         /\ IF ResizeHasFd
            THEN /\ out' = set_size(NoOut, fd, sz)
                 /\ UNCHANGED <<gateVars, sessVars, procVars, taskVars, sessionOut>>
            ELSE Ignored("resize", "nosession")

\* ------------------------------------------------------------- environment
\* The command writes a chunk to its terminal.
ProcOutput(p) ==
    /\ Alive(p)
    /\ outCount[p] < MaxOut
    /\ outCount' = [outCount EXCEPT ![p] = outCount[p] + 1]
    /\ ptybuf' = [ptybuf EXCEPT ![p] = Append(ptybuf[p], Chunk(p, outCount[p] + 1))]
    /\ out' = NoOut
    /\ UNCHANGED <<gateVars, sessVars, taskVars, sessionOut>>
    /\ UNCHANGED <<spawned, status>>

\* The command ends by itself.
ProcExit(p) ==
    /\ Alive(p)
    /\ status' = [status EXCEPT ![p] = "dead"]
    /\ out' = NoOut
    /\ UNCHANGED <<gateVars, sessVars, taskVars, sessionOut>>
    /\ UNCHANGED <<spawned, ptybuf, outCount>>

\* -------------------------------------------------------------------- gate
\* login_submit (POST /login)
LoginSubmit(v, inp) ==
    /\ IF webpass = "none"
       THEN /\ Answer("login", "notset", None, inp)
            /\ UNCHANGED <<loggedIn, faillog>>
       ELSE IF TooManyTrials
       THEN /\ Answer("login", "toomany", None, inp)
            /\ UNCHANGED <<loggedIn, faillog>>
       ELSE IF webpass = "empty" \/ inp = "correct"
       THEN /\ Answer("login", "redirect", None, inp)
            /\ loggedIn' = loggedIn \cup {v}
            /\ UNCHANGED faillog
       ELSE /\ Len(faillog) < MaxFails
            /\ Answer("login", "wrong", None, inp)
            /\ faillog' = Append(faillog, now)
            /\ UNCHANGED loggedIn
    /\ UNCHANGED <<webpass, allow_restart, now, ticks>>
    /\ UNCHANGED <<sessVars, procVars, taskVars, sessionOut>>

\* login (GET /login): an empty secret logs the viewer in at once.
LoginPage(v) ==
    /\ IF webpass = "empty"
       THEN /\ loggedIn' = loggedIn \cup {v}
            /\ Answer("page", "redirect", None, "absent")
       ELSE /\ Answer("page", "form", None, "absent")
            /\ UNCHANGED loggedIn
    /\ UNCHANGED <<webpass, allow_restart, faillog, now, ticks>>
    /\ UNCHANGED <<sessVars, procVars, taskVars, sessionOut>>

\* console (GET /console): the page, or the redirect of login_manager.unauthorized().
Console(v) ==
    /\ IF is_authenticated(v)
       THEN Answer("console", "page", None, "absent")
       ELSE Answer("console", "unauthorized", None, "absent")
    /\ UNCHANGED <<gateVars, sessVars, procVars, taskVars, sessionOut>>

\* logout (GET /logout)
Logout(v) ==
    /\ loggedIn' = loggedIn \ {v}
    /\ Answer("page", "form", None, "absent")
    /\ UNCHANGED <<webpass, allow_restart, faillog, now, ticks>>
    /\ UNCHANGED <<sessVars, procVars, taskVars, sessionOut>>

\* time.time() moves on, by a second or by just under the rate-limit window.
Advance(d) ==
    /\ ticks < MaxTicks
    /\ ticks' = ticks + 1
    /\ now' = now + d
    /\ out' = NoOut
    /\ UNCHANGED <<webpass, allow_restart, loggedIn, faillog>>
    /\ UNCHANGED <<sessVars, procVars, taskVars, sessionOut>>

\* ------------------------------------------------------------ specification
\* The session: every socket event, the heartbeat, the background tasks and the
\* command, with viewers that log in and heartbeats that come with the right secret
\* (what the gate does with other candidates is studied under GateSpec).
Next ==
    \/ \E v \in Viewers, sz \in Sizes : Run(v, sz)
    \/ \E v \in Viewers, sz \in Sizes : RunFail(v, sz)
    \/ RunFinish
    \/ Heartbeat("correct")
    \/ HeartbeatFail("correct")
    \/ \E p \in Pids : HeartbeatFinish(p)
    \/ \E v \in Viewers : Stop(v)
    \/ \E p \in Pids : KillProc(p)
    \/ \E p \in Pids : ExitWatcher(p)
    \/ \E r \in Pids : ReaderStart(r)
    \/ \E r \in Pids : ReaderWake(r)
    \/ \E r \in Pids : ReaderLocked(r)
    \/ \E r \in Pids : ReaderUnblock(r)
    \/ \E v \in Viewers : PtyInput(v)
    \/ \E v \in Viewers, sz \in Sizes : Resize(v, sz)
    \/ \E p \in Pids : ProcOutput(p)
    \/ \E p \in Pids : ProcExit(p)
    \/ \E v \in Viewers : LoginSubmit(v, "correct")
    \/ \E v \in Viewers : Logout(v)

Spec == Init /\ [][Next]_vars

\* The tasks started with socketio.start_background_task are scheduled: a kill_proc
\* task that is ready to run does run.
FairSpec == Spec /\ \A p \in Pids : WF_vars(KillProc(p))

\* Every background task is scheduled: the kill_proc tasks as above, and a reader
\* that can take its next step (leave select once its descriptor is readable,
\* get the free lock, return from os.read once there is data) does take it.
ReaderFairSpec ==
    /\ FairSpec
    /\ \A r \in Pids : /\ WF_vars(ReaderStart(r))
                       /\ WF_vars(ReaderWake(r))
                       /\ SF_vars(ReaderLocked(r))
                       /\ WF_vars(ReaderUnblock(r))

\* The access gate: logins with any candidate, the console page, the clock, and the
\* heartbeat.
NextGate ==
    \/ \E v \in Viewers, inp \in Inputs : LoginSubmit(v, inp)
    \/ \E v \in Viewers : LoginPage(v)
    \/ \E v \in Viewers : Console(v)
    \/ \E v \in Viewers : Logout(v)
    \/ \E d \in Steps : Advance(d)
    \/ \E inp \in Inputs : Heartbeat(inp)
    \/ \E p \in Pids : HeartbeatFinish(p)

GateSpec == InitGate /\ [][NextGate]_vars

\* ------------------------------------------------------------------ claims
\* Processes that are alive and were not handed to kill_proc, and those whose
\* start_proc has not yet recorded them.
Live == {p \in Pids : Alive(p) /\ killPc[p] = "none"}
Starting == hbPending \cup (IF runPending.pid # None THEN {runPending.pid} ELSE {})

\* C1: at most one process that was not handed to the kill sequence is alive, and
\* once its start has completed it is the process recorded as current, together
\* with its pty descriptor.
C1_AtMostOneLiveProcess ==
    /\ Cardinality(Live) <= 1
    /\ \A p \in Live \ Starting : proc = p /\ fd = p

\* C2: a run event of an authenticated viewer or a heartbeat with the correct
\* secret that arrives while the recorded process is alive spawns nothing and leaves
\* the recorded process and descriptor as they are.
C2_StartIdempotentWhileRunning ==
    [][(/\ proc # None
        /\ Alive(proc)
        /\ \/ \E v \in Viewers, sz \in Sizes : is_authenticated(v) /\ Run(v, sz)
           \/ Heartbeat("correct"))
       => UNCHANGED <<proc, fd, spawned, status, runPending, hbPending>>]_vars

\* C2, its case: a run event answered with a replay while the one process is alive.
C2_Witness ==
    /\ out.kind = "replay"
    /\ proc # None
    /\ Alive(proc)
    /\ Cardinality({p \in Pids : Alive(p)}) = 1

\* C3: every step that records a new current process leaves the history empty.
C3_StartLeavesHistoryEmpty ==
    [][(proc' # proc /\ proc' # None) => hist' = <<>>]_vars

\* C4: while a process is recorded the history is the concatenation, in publish
\* order, of the output events published since that session started, and a replay
\* carries exactly that.
C4_HistoryIsSessionOutput ==
    /\ proc # None => hist = sessionOut
    /\ out.kind = "replay" => out.output = sessionOut

\* C5: the replay that answers a run event is delivered to the requesting viewer
\* only.
C5_ReplayToRequesterOnly ==
    out.kind = "replay" => out.to = {out.by}

InHist(p) == \E i \in DOMAIN hist : hist[i] = Notice(p)

\* C7: a step adds the exit notice of a process to the history, or publishes it,
\* only if that process is the recorded current one and was not handed to stop's
\* kill sequence.
C7_ExitNoticeOnlyForCurrent ==
    [][\A p \in Pids :
          (\/ ~InHist(p) /\ InHist(p)'
           \/ out' # out /\ out'.kind = "notice" /\ out'.output = <<Notice(p)>>)
          => (proc = p /\ killPc[p] = "none")]_vars

\* C7, its case: the exit watcher of a stopped process has run, a newer process is
\* recorded, and the history holds no notice of the stopped one.
C7_Witness ==
    \E p \in Pids :
        /\ killPc[p] = "done"
        /\ watcher[p] = "done"
        /\ proc # None
        /\ proc # p
        /\ ~InHist(p)

\* C8: a run event of an authenticated viewer on a session whose recorded process
\* has exited spawns a fresh process and sends nothing, and the run handler then
\* records that process and its descriptor as current, again sending no output.
C8_RunOnExitedStartsFresh ==
    [][/\ \A v \in Viewers, sz \in Sizes :
              (is_authenticated(v) /\ proc # None /\ ~Alive(proc) /\ Run(v, sz))
              => /\ spawned' = spawned + 1
                 /\ status'[spawned'] = "alive"
                 /\ runPending'.pid = spawned'
                 /\ out'.kind = "none"
       /\ RunFinish
              => /\ proc' = runPending.pid
                 /\ fd' = runPending.pid
                 /\ proc' # proc
                 /\ out'.kind = "none"]_vars

\* C8, its case: the run handler has spawned a process while the recorded one is
\* an exited one.
C8_Witness ==
    /\ runPending.pid # None
    /\ Alive(runPending.pid)
    /\ proc # None
    /\ status[proc] = "dead"

\* C9: a heartbeat with the correct secret answers "running" only when the
\* recorded process is alive; with no live process it restarts.
C9_HeartbeatRunningOnlyWhenAlive ==
    (out.kind = "heartbeat" /\ out.status = "running")
        => (proc # None /\ Alive(proc) /\ out.pid = proc)

\* Failed logins recorded within the trailing hour.
RecentFails == Cardinality({i \in DOMAIN faillog : faillog[i] > now - Window})

\* C10: with a secret configured and 5 failed logins recorded within the trailing
\* hour, a login attempt fails whatever its candidate.
C10_LockoutRejectsEveryAttempt ==
    [][\A v \in Viewers, inp \in Inputs :
          (webpass = "set" /\ RecentFails >= FailLimit /\ LoginSubmit(v, inp))
          => (loggedIn' = loggedIn /\ out'.status = "toomany")]_vars

\* C10, its case: a login with the correct secret was rejected for too many trials.
C10_Witness ==
    /\ out.kind = "login"
    /\ out.status = "toomany"
    /\ out.input = "correct"
    /\ webpass = "set"

\* C11: with a secret configured, a login with the correct secret succeeds whenever
\* fewer than 5 recorded failures lie within the trailing hour, and an attempt
\* rejected for too many trials leaves the failed-login log as it was.
C11_LockoutEndsWithWindow ==
    [][\A v \in Viewers, inp \in Inputs :
          LoginSubmit(v, inp)
          => /\ (webpass = "set" /\ RecentFails < FailLimit /\ inp = "correct")
                    => (v \in loggedIn' /\ out'.status = "redirect")
             /\ out'.status = "toomany" => faillog' = faillog]_vars

\* C11, its case: the log holds 5 failures, none of them within the trailing hour
\* any more, and a login with the correct secret has just succeeded.
C11_Witness ==
    /\ webpass = "set"
    /\ Len(faillog) >= FailLimit
    /\ RecentFails = 0
    /\ out.kind = "login"
    /\ out.status = "redirect"
    /\ out.input = "correct"

\* C12: with no secret configured (absent or empty) every viewer counts as
\* authenticated, the console page is served and the heartbeat is not refused.
C12_OpenAccessWithoutSecret ==
    webpass \in {"none", "empty"}
        => /\ \A v \in Viewers : is_authenticated(v)
           /\ out.kind = "console" => out.status = "page"
           /\ out.kind = "heartbeat" => out.status # "forbidden"

\* C13: with a secret configured, a heartbeat with a wrong secret appends the time
\* to the failed-login log, and a heartbeat that arrives with 5 failures within
\* the trailing hour is refused and spawns nothing, whatever secret it carries.
C13_HeartbeatRateLimited ==
    [][/\ (webpass = "set" /\ Heartbeat("wrong")) => faillog' = Append(faillog, now)
       /\ \A inp \in Inputs :
              (webpass = "set" /\ RecentFails >= FailLimit /\ Heartbeat(inp))
              => (out'.status = "forbidden" /\ spawned' = spawned)]_vars

\* C14: with a secret configured, an input, resize, run or stop event of a viewer
\* who is not logged in leaves the recorded process, the descriptor and the history
\* unchanged, spawns nothing, writes to no pty and publishes nothing.
C14_UnauthenticatedEventsIgnored ==
    [][\A v \in Viewers :
          (/\ webpass = "set"
           /\ v \notin loggedIn
           /\ \/ PtyInput(v)
              \/ \E sz \in Sizes : Resize(v, sz)
              \/ \E sz \in Sizes : Run(v, sz)
              \/ Stop(v))
          => /\ UNCHANGED <<proc, fd, hist, spawned, status, killPc>>
             /\ out'.wrote = None
             /\ out'.sized = None
             /\ out'.to = {}
             /\ out'.output = <<>>]_vars

\* C14, its case: a stop event of a viewer who is not logged in was ignored while
\* a live process is recorded.
C14_Witness ==
    /\ out.kind = "event"
    /\ out.status = "unauthenticated"
    /\ proc # None
    /\ Alive(proc)
    /\ fd = proc

\* C15: an input event of an authenticated viewer that is handled while no
\* descriptor is recorded writes to no pty, raises no error and changes nothing of
\* the session, the processes or the tasks.
C15_InputWithoutDescriptorIsNoOp ==
    [][\A v \in Viewers :
          (fd = None /\ is_authenticated(v) /\ PtyInput(v))
          => /\ out'.wrote = None
             /\ out'.status # "error"
             /\ out'.to = {}
             /\ UNCHANGED <<gateVars, sessVars, procVars, taskVars>>]_vars

\* C15, its case: an input event was dropped after a stop cleared the descriptor,
\* the kill sequence of the stopped process not having run yet.
C15_Witness ==
    /\ out.kind = "input"
    /\ out.status = "nosession"
    /\ fd = None
    /\ \E p \in Pids : killPc[p] = "ready"

\* C16: a resize event of an authenticated viewer that is handled while no
\* descriptor is recorded raises no error, applies no geometry and leaves the
\* recorded process, the descriptor and the history unchanged.
C16_ResizeWithoutSessionIsNoOp ==
    [][\A v \in Viewers, sz \in Sizes :
          (fd = None /\ is_authenticated(v) /\ Resize(v, sz))
          => /\ out'.sized = None
             /\ out'.size = None
             /\ out'.status # "error"
             /\ UNCHANGED <<proc, fd, hist>>]_vars

\* C16, its case: a resize event was dropped before any process was started.
C16_Witness ==
    /\ out.kind = "resize"
    /\ out.status = "nosession"
    /\ spawned = 0
    /\ proc = None
    /\ fd = None

\* C17: a start that fails in pty.openpty() or Popen ends in an error at its
\* caller, leaves the recorded process and descriptor as they were, launches no
\* exit watcher and no reader, consumes nothing, and, when the run handler made
\* it, leaves the lock free and the session not running, so that the next run
\* event starts again.
C17_SpawnFailureLeavesSession ==
    [][/\ \A v \in Viewers, sz \in Sizes :
              RunFail(v, sz)
              => /\ out'.status = "error"
                 /\ UNCHANGED <<proc, fd, watcher, readerPc, spawned, status>>
                 /\ lock' = "free"
                 /\ ~IsRunning'
       /\ \A inp \in Inputs :
              HeartbeatFail(inp)
              => /\ out'.status = "error"
                 /\ UNCHANGED <<proc, fd, lock, watcher, readerPc, spawned, status>>
                 /\ NoProc']_vars

\* C17, its case: a run event on an idle session ended in a spawn error; nothing is
\* recorded, no task exists and the lock is free.
C17_Witness ==
    /\ out.kind = "run"
    /\ out.status = "error"
    /\ proc = None
    /\ fd = None
    /\ lock = "free"
    /\ \A p \in Pids : watcher[p] = "none" /\ readerPc[p] = "none"

\* The reader task started for session p is running.
Pumping(p) == readerPc[p] \in {"top", "select", "wantlock", "blocked"}

\* C18: once stop has cleared the descriptor of a session, the reader task started
\* for that session eventually terminates.
C18_ReaderEndsAfterStop ==
    \A p \in Pids : (killPc[p] # "none" /\ Pumping(p)) ~> (readerPc[p] = "done")

\* C19: no reader is blocked in os.read while it holds the lock.
C19_NoBlockedReadUnderLock ==
    \A r \in Pids : ~(readerPc[r] = "blocked" /\ lock = "reader")

\* C20: a reader waits on and reads from the descriptor of its own session only,
\* and every output event it publishes is output of that session.
C20_ReaderReadsOwnDescriptor ==
    /\ \A r \in Pids : readerPc[r] \in {"select", "wantlock", "blocked"} => selFd[r] = r
    /\ out.kind = "chunk" => \A i \in DOMAIN out.output : out.output[i][1] = out.pid

====
